---------------------------- MODULE Spec2Model ----------------------------
(***************************************************************************)
(* A model of the flux-tester integration harness: the polling engine      *)
(* (until), the sync-convergence checks built on it or on a time.Ticker    *)
(* (waitForSync, servicesAPICall, verifySyncAndSvcs), the suite lifecycle   *)
(* (TestMain, newharness, the test functions), the command runner         *)
(* (envExec and its wrappers strOrDie and ignoreErr), the helm release     *)
(* checks of TestChartUpdateViaHelm and waitForUpstreamCommits.            *)
(*                                                                         *)
(* Time is counted in units of half a polling interval (TickLen units make *)
(* one tick).  Time passes only while the unit of work is blocked: in a    *)
(* select with no ready channel, or while a predicate is being evaluated.  *)
(* Strings produced by git are modelled as naturals: 0 is the empty        *)
(* string, n > 0 is the commit id n.                                       *)
(***************************************************************************)
EXTENDS Integers, Sequences, FiniteSets, TLC

\* ------------------------------------------------------------- bounds
\* The longest context timeout tried, in time units.
MaxTimeout == 7
\* The longest a predicate evaluation may take, in time units.
MaxPredDur == 2
\* The highest commit id the remote repository reaches.
MaxRev == 2
\* The test reporter's error counter saturates here.
MaxErrs == 2
\* The texts a command may print: 0 is the empty text, 1..MaxOut the others.
MaxOut == 2

\* ------------------------------------------------------ program constants
\* time.NewTicker(time.Second): one tick, in time units.
TickLen == 2

VARIABLES
  \* --- polling: clock, context and ticker
  variant,      \* which caller is modelled: "generic", "untilSync", "tickerSync",
                \* "helm", "untilCommits", "tickerCommits"
  timeout,      \* the duration given to context.WithTimeout
  targetRemote, \* TRUE: target is refs/remotes/origin/master, FALSE: HEAD
  now,          \* the clock
  deadline,     \* the context's deadline (absolute)
  pc,           \* position of the unit of work
  tickPending,  \* a tick is waiting in the ticker's channel (capacity 1)
  nextTick,     \* when the ticker fires next
  \* --- polling: until
  evalEnd,      \* when the predicate evaluation in flight returns
  lastErr,      \* until's (servicesAPICall's) err variable
  untilRes,     \* what until returned
  evalLog,      \* history: the results of the evaluations performed, in order
  evalTimes,    \* history: when each of them returned
  retAt,        \* history: when until returned
  \* --- the repositories
  remoteTag,    \* the sync tag in the remote repository (0: absent)
  remoteMaster, \* master in the remote repository
  localTag,     \* the sync tag in the local clone
  localTarget,  \* the target ref in the local clone
  headRev,      \* ticker-based waitForSync: the target revision read on entry
  conv,         \* history: what the repositories held at the tick that matched
  wsReturned,   \* waitForSync has returned normally (convergence reported)
  \* --- verifySyncAndSvcs
  got,          \* "nil", "empty", "match", "differ"
  diff,         \* cmp.Diff(got, expected) is non-empty
  svcCalls,     \* history: number of calls of services
  errCount,     \* t.Errorf calls recorded (saturating)
  testFailed,   \* the test is marked failed
  procAborted,  \* log.Fatal ended the test process
  report,       \* what the message of the test's fatal failure names
  lastSeen,     \* history: the sync tag's revision as the latest lookup saw it
  evalStarts,   \* history: when each evaluation of until's predicate started
  tickerMade,   \* history: when the ticker in use was made
  \* --- the suite: TestMain and the tests it runs
  version,      \* the snapshot run: "main" (package main) or "test" (package test)
  keepWorkdir,  \* -keep-workdir
  startMinikube,\* -start-minikube
  driverNone,   \* -minikube-driver none
  proc,         \* the test process: "running" or "exited"
  exitCode,     \* its exit status
  m_pc,         \* TestMain: index of the next setup step
  deferred,     \* TestMain: the calls deferred so far
  workdir,      \* the root working directory: "none", "exists", "removed"
  fields,       \* the fields of global assigned so far
  failedSetup,  \* history: the setup steps that failed
  mRun,         \* m.Run has been entered
  cur,          \* m.Run: index of the current test
  t_pc,         \* the current test: index of its next step (0: not started)
  status,       \* per test: "pending", "running", "pass", "fail"
  mutatedBy,    \* history: per resource, the tests whose harness mutated it
  dieIn,        \* history: the tests in which an ...OrDie command failed
  global,       \* the value of each field of the global setup
  harness,      \* the harness of the current test
  \* --- the command runner
  c_pc,         \* "idle", or "ran": the child has ended, the wrapper has not returned
  c_call,       \* the call in progress, or the last one
  c_raw,        \* what CombinedOutput gave for it
  c_res,        \* what envExec returned for it
  c_prev,       \* history: the call before it and how its run ended
  c_seen,       \* what the caller of the wrapper received
  c_exit,       \* log.Fatal ended the process
  present,      \* the resources (sync tag, secret, release) that exist
  seenFor,      \* history: per kind of failed lookup, what the caller received
  \* --- the helm release checks
  h_phase,      \* TestChartUpdateViaHelm: the statement it is at
  releases,     \* tiller: the history of release test1, oldest entry first
  h_hist,       \* the history entry the latest lookup returned
  h_min,        \* minRevision of the assertion in progress
  h_want,       \* the value the assertion in progress waits for
  h_ret,        \* initialRevision (0: not returned yet)
  h_ok,         \* history: what each assertion that passed had observed
  \* --- waitForUpstreamCommits
  mincount,     \* the number of commits waited for
  commits,      \* the commits in HEAD..flux-sync at the remote
  wc_seen       \* history: per tick, what rev-list --count printed and what followed

pollVars == <<variant, timeout, targetRemote, now, deadline, pc, tickPending,
              nextTick, evalEnd, lastErr, untilRes, evalLog, evalTimes, retAt,
              remoteTag, remoteMaster, localTag, localTarget, headRev, conv,
              wsReturned, got, diff, svcCalls, errCount, testFailed, procAborted,
              report, lastSeen, evalStarts, tickerMade>>

mainVars == <<version, keepWorkdir, startMinikube, driverNone, proc, exitCode,
              m_pc, deferred, workdir, fields, failedSetup, mRun, cur, t_pc,
              status, mutatedBy, dieIn, global, harness>>

cmdVars == <<c_pc, c_call, c_raw, c_res, c_prev, c_seen, c_exit, present, seenFor>>

helmVars == <<h_phase, releases, h_hist, h_min, h_want, h_ret, h_ok>>

upVars == <<mincount, commits, wc_seen>>

vars == <<pollVars, mainVars, cmdVars, helmVars, upVars>>

\* ------------------------------------------------------------- errors
\* An error value: its text and the two revisions a divergence error quotes.
Err(k, s, t) == [kind |-> k, sync |-> s, target |-> t]

NoErr == Err("nil", 0, 0)

\* What until returns: nothing yet, nil, or the deadline wrapper around a cause.
Pending == [kind |-> "pending", cause |-> NoErr]

RetNil == [kind |-> "nil", cause |-> NoErr]

DeadlineExceeded(cause) == [kind |-> "deadline", cause |-> cause]

Min(a, b) == IF a < b THEN a ELSE b

\* ------------------------------------------------------ failure reports
\* No fatal failure has been reported.
NoReport == [made |-> FALSE, names |-> {}]

\* t.Fatal, t.Fatalf: the revisions the message names, each with its role.
Fatalf(names) == [made |-> TRUE, names |-> names]

\* The revisions the text of an error names: the divergence error quotes the
\* sync tag's revision and the target's; the deadline wrapper adds nothing.
Names(err) ==
  IF err.kind = "diverged" THEN {<<"sync", err.sync>>, <<"target", err.target>>}
  ELSE {}

\* No lookup of the sync tag yet, and a lookup that saw rev.
NotSeen == [any |-> FALSE, rev |-> 0]

Seen(rev) == [any |-> TRUE, rev |-> rev]

\* ------------------------------------------------------- git and cmp
\* gitAPI.revlist("-n", "1", ref): the commit id, or an error and no output
\* when the ref does not exist.
revlist(rev) == IF rev = 0 THEN [out |-> 0, err |-> TRUE]
                ELSE [out |-> rev, err |-> FALSE]

\* ignoreErr(s, err): the output, or "" when the command failed.
ignoreErr(s, err) == IF err THEN 0 ELSE s

\* What `git fetch --tags` leaves in the local clone: the remote's tag, and the
\* remote-tracking branch when that is the target.
FetchedTag == remoteTag

FetchedTarget == IF targetRemote THEN remoteMaster ELSE localTarget

cmpDiff_never_differs(g) == FALSE

\* cmp.Diff(got, expected) != "".
cmpDiff(g) == g # "match"

NewTicker_fires_at_once == /\ tickPending' = TRUE
                           /\ nextTick' = now + TickLen
                           /\ tickerMade' = now

\* time.NewTicker: an empty channel, the first tick one interval from now.
NewTicker == /\ tickPending' = FALSE
             /\ nextTick' = now + TickLen
             /\ tickerMade' = now

\* What the matching tick saw: nothing yet.
NoConv == [seen |-> FALSE, fetched |-> FALSE, tag |-> 0, target |-> 0]

\* The repositories as they are at a tick that fetched (fetched) and matched.
Observed(fetched) ==
  [seen |-> TRUE, fetched |-> fetched, tag |-> remoteTag,
   target |-> IF targetRemote THEN remoteMaster ELSE localTarget]

\* ------------------------------------------------------------- until
\* The predicate results of the generic caller.
GenericResults == {NoErr, Err("e1", 0, 0), Err("e2", 0, 0)}

until_step_never_returns(r) == "retry"

until_step_returns_on_error(r) == IF r = NoErr THEN "retnil" ELSE "reterr"

\* until: success ends the loop, any error means retry.
until_step(r) == IF r = NoErr THEN "retnil" ELSE "retry"

until_lastErr_keeps_first(old, r) == IF old = NoErr THEN r ELSE old

\* until: the error kept for the deadline report is the latest one.
until_lastErr(old, r) == r

AfterUntil_skips_must ==
  CASE variant = "generic" -> "g_done"
    [] variant = "helm" -> "h_exitif"
    [] variant = "untilCommits" -> "wc_must"
    [] OTHER -> "vs_check"

\* Where control goes when until returns.
AfterUntil ==
  CASE variant = "generic" -> "g_done"
    [] variant = "helm" -> "h_exitif"
    [] variant = "untilCommits" -> "wc_must"
    [] OTHER -> "ws_must"

\* until is entered: a fresh ticker, no error seen.
until_call ==
  /\ pc = "u_call"
  /\ NewTicker
  /\ lastErr' = NoErr
  /\ pc' = "u_wait"
  /\ UNCHANGED <<report, lastSeen, evalStarts>>
  /\ UNCHANGED <<mainVars, cmdVars, helmVars, upVars>>
  /\ UNCHANGED <<variant, timeout, targetRemote, now, deadline, evalEnd,
                 untilRes, evalLog, evalTimes, retAt, remoteTag, remoteMaster,
                 localTag, localTarget, headRev, conv, wsReturned, got, diff,
                 svcCalls, errCount, testFailed, procAborted>>

until_tick_keeps_the_tick ==
  /\ pc = "u_wait"
  /\ tickPending
  /\ now < deadline
  /\ \E d \in 0..MaxPredDur : evalEnd' = now + d
  /\ pc' = "u_eval"
  /\ evalStarts' = Append(evalStarts, now)
  /\ UNCHANGED <<report, lastSeen, tickerMade>>
  /\ UNCHANGED <<mainVars, cmdVars, helmVars, upVars>>
  /\ UNCHANGED <<variant, timeout, targetRemote, now, deadline, nextTick,
                 lastErr, untilRes, evalLog, evalTimes, retAt, remoteTag,
                 remoteMaster, localTag, localTarget, headRev, conv, wsReturned,
                 got, diff, svcCalls, errCount, testFailed, procAborted,
                 tickPending>>

\* until: a tick arrives before the deadline; the predicate is called.
until_tick ==
  /\ pc = "u_wait"
  /\ tickPending
  /\ now < deadline
  /\ \E d \in 0..MaxPredDur : evalEnd' = now + d
  /\ tickPending' = FALSE
  /\ pc' = "u_eval"
  /\ evalStarts' = Append(evalStarts, now)
  /\ UNCHANGED <<report, lastSeen, tickerMade>>
  /\ UNCHANGED <<mainVars, cmdVars, helmVars, upVars>>
  /\ UNCHANGED <<variant, timeout, targetRemote, now, deadline, nextTick,
                 lastErr, untilRes, evalLog, evalTimes, retAt, remoteTag,
                 remoteMaster, localTag, localTarget, headRev, conv, wsReturned,
                 got, diff, svcCalls, errCount, testFailed, procAborted>>

\* until receives predicate result r.
until_handle(r) ==
  /\ evalLog' = Append(evalLog, r)
  /\ evalTimes' = Append(evalTimes, now)
  /\ IF until_step(r) = "retry"
       THEN /\ lastErr' = until_lastErr(lastErr, r)
            /\ pc' = "u_wait"
            /\ UNCHANGED <<untilRes, retAt>>
       ELSE /\ untilRes' = IF until_step(r) = "retnil" THEN RetNil
                           ELSE [kind |-> "error", cause |-> r]
            /\ retAt' = now
            /\ pc' = AfterUntil
            /\ UNCHANGED lastErr

\* The predicate ends the test itself (t.Fatal, t.Fatalf): until never returns.
predicate_fatal ==
  /\ pc' = "t_fatal"
  /\ testFailed' = TRUE
  /\ report' = Fatalf({})
  /\ UNCHANGED <<lastErr, untilRes, evalLog, evalTimes, retAt>>

waitForSync_predicate_never_diverged(syncRev, targetRev) == NoErr

waitForSync_predicate_absent_is_synced(syncRev, targetRev) ==
  IF syncRev = 0 \/ syncRev = targetRev THEN NoErr
  ELSE Err("diverged", syncRev, targetRev)

\* waitForSync's predicate, the comparison: nil when the sync tag is at the
\* target revision, else an error quoting both.
waitForSync_predicate(syncRev, targetRev) ==
  IF syncRev # targetRev THEN Err("diverged", syncRev, targetRev) ELSE NoErr

\* until: the generic predicate returns.
until_return_generic ==
  /\ pc = "u_eval"
  /\ variant = "generic"
  /\ now = evalEnd
  /\ now <= deadline
  /\ \E r \in GenericResults : until_handle(r)
  /\ UNCHANGED <<report, lastSeen, evalStarts, tickerMade>>
  /\ UNCHANGED <<mainVars, cmdVars, helmVars, upVars>>
  /\ UNCHANGED <<variant, timeout, targetRemote, now, deadline, tickPending,
                 nextTick, evalEnd, remoteTag, remoteMaster, localTag,
                 localTarget, headRev, conv, wsReturned, got, diff, svcCalls,
                 errCount, testFailed, procAborted>>

waitForSync_targetRev_before_fetch == revlist(localTarget)

\* waitForSync's predicate: the target ref is resolved after mustFetch.
waitForSync_targetRev == revlist(FetchedTarget)

\* until: waitForSync's predicate runs and returns: fetch, resolve the target,
\* resolve the sync tag, compare.
until_return_waitForSync ==
  /\ pc = "u_eval"
  /\ variant = "untilSync"
  /\ now = evalEnd
  /\ now <= deadline
  /\ \E fetchOk \in BOOLEAN :
       IF ~fetchOk
         THEN /\ predicate_fatal
              /\ UNCHANGED <<localTag, localTarget, conv, lastSeen>>
         ELSE /\ localTag' = FetchedTag
              /\ localTarget' = FetchedTarget
              /\ LET targetRev == waitForSync_targetRev
                     syncRev == revlist(FetchedTag)
                     r == waitForSync_predicate(syncRev.out, targetRev.out)
                 IN IF targetRev.err
                      THEN predicate_fatal /\ UNCHANGED <<conv, lastSeen>>
                      ELSE /\ until_handle(r)
                           /\ conv' = IF r = NoErr THEN Observed(TRUE) ELSE conv
                           /\ lastSeen' = Seen(syncRev.out)
                           /\ UNCHANGED <<testFailed, report>>
  /\ UNCHANGED <<evalStarts, tickerMade>>
  /\ UNCHANGED <<mainVars, cmdVars, helmVars, upVars>>
  /\ UNCHANGED <<variant, timeout, targetRemote, now, deadline, tickPending,
                 nextTick, evalEnd, remoteTag, remoteMaster, headRev,
                 wsReturned, got, diff, svcCalls, errCount, procAborted>>

until_deadline_waits_for_predicate ==
  /\ pc = "u_wait"
  /\ now >= deadline
  /\ untilRes' = DeadlineExceeded(lastErr)
  /\ retAt' = now
  /\ pc' = AfterUntil
  /\ UNCHANGED <<report, lastSeen, evalStarts, tickerMade>>
  /\ UNCHANGED <<mainVars, cmdVars, helmVars, upVars>>
  /\ UNCHANGED <<variant, timeout, targetRemote, now, deadline, tickPending,
                 nextTick, evalEnd, lastErr, evalLog, evalTimes, remoteTag,
                 remoteMaster, localTag, localTarget, headRev,
                 conv, got, diff, svcCalls, procAborted, wsReturned, errCount,
                 testFailed>>

\* until: the deadline has expired: stop at once, also with an evaluation in
\* flight, and return the last error wrapped as deadline-exceeded.
until_deadline ==
  /\ pc \in {"u_wait", "u_eval"}
  /\ now >= deadline
  /\ untilRes' = DeadlineExceeded(lastErr)
  /\ retAt' = now
  /\ pc' = AfterUntil
  /\ UNCHANGED <<report, lastSeen, evalStarts, tickerMade>>
  /\ UNCHANGED <<mainVars, cmdVars, helmVars, upVars>>
  /\ UNCHANGED <<variant, timeout, targetRemote, now, deadline, tickPending,
                 nextTick, evalEnd, lastErr, evalLog, evalTimes, remoteTag,
                 remoteMaster, localTag, localTarget, headRev, conv, wsReturned,
                 got, diff, svcCalls, errCount, testFailed, procAborted>>

\* ------------------------------------------- the caller's entry point
\* context.WithTimeout, then the call the variant makes: until directly (the
\* generic caller), waitForSync through until, or the ticker-based waitForSync.
Start ==
  /\ pc = "start"
  /\ deadline' = now + timeout
  /\ pc' = CASE variant = "tickerSync" -> "ws_entry"
              [] variant = "tickerCommits" -> "wc_entry"
              [] OTHER -> "u_call"
  /\ UNCHANGED <<report, lastSeen, evalStarts, tickerMade>>
  /\ UNCHANGED <<mainVars, cmdVars, helmVars, upVars>>
  /\ UNCHANGED <<variant, timeout, targetRemote, now, tickPending, nextTick,
                 evalEnd, lastErr, untilRes, evalLog, evalTimes, retAt,
                 remoteTag, remoteMaster, localTag, localTarget, headRev, conv,
                 wsReturned, got, diff, svcCalls, errCount, testFailed,
                 procAborted>>

must_reports_only(err) == FALSE

\* harness.must: a non-nil error is fatal for the test (t.Fatal).
must_fatal(err) == err.kind # "nil"

\* waitForSync (until-based): h.must(until(...)).
harness_must ==
  /\ pc = "ws_must"
  /\ IF must_fatal(untilRes)
       THEN /\ pc' = "t_fatal"
            /\ testFailed' = TRUE
            /\ report' = Fatalf(Names(untilRes.cause))
            /\ UNCHANGED <<wsReturned, errCount>>
       ELSE /\ pc' = "vs_check"
            /\ wsReturned' = TRUE
            /\ testFailed' = (testFailed \/ untilRes.kind # "nil")
            /\ errCount' = IF untilRes.kind # "nil"
                             THEN Min(errCount + 1, MaxErrs) ELSE errCount
            /\ UNCHANGED report
  /\ UNCHANGED lastSeen
  /\ UNCHANGED <<evalStarts, tickerMade>>
  /\ UNCHANGED <<mainVars, cmdVars, helmVars, upVars>>
  /\ UNCHANGED <<variant, timeout, targetRemote, now, deadline, tickPending,
                 nextTick, evalEnd, lastErr, untilRes, evalLog, evalTimes,
                 retAt, remoteTag, remoteMaster, localTag, localTarget, headRev,
                 conv, got, diff, svcCalls, procAborted>>

\* ------------------------------------------ waitForSync, ticker-based
\* envExec under ctx: exec.CommandContext fails once ctx has expired.
ctxAlive == now < deadline

\* strOrDie: log.Fatal ends the process.
strOrDie_abort ==
  /\ pc' = "aborted"
  /\ procAborted' = TRUE

\* waitForSync: headRev := gitOrDie(ctx, "rev-list", "-n", "1", target), then
\* the ticker is made.
waitForSync_entry ==
  /\ pc = "ws_entry"
  /\ IF ctxAlive /\ ~revlist(localTarget).err
       THEN /\ headRev' = revlist(localTarget).out
            /\ NewTicker
            /\ pc' = "ws_select"
            /\ UNCHANGED procAborted
       ELSE /\ strOrDie_abort
            /\ UNCHANGED <<headRev, tickPending, nextTick, tickerMade>>
  /\ UNCHANGED <<report, lastSeen, evalStarts>>
  /\ UNCHANGED <<mainVars, cmdVars, helmVars, upVars>>
  /\ UNCHANGED <<variant, timeout, targetRemote, now, deadline, evalEnd,
                 lastErr, untilRes, evalLog, evalTimes, retAt, remoteTag,
                 remoteMaster, localTag, localTarget, conv, wsReturned, got,
                 diff, svcCalls, errCount, testFailed>>

\* waitForSync, case <-t.C: fetch or die, read the sync tag ignoring errors,
\* return true when it equals headRev.  select may take this case with the
\* context already done.
waitForSync_tick ==
  /\ pc = "ws_select"
  /\ tickPending
  /\ tickPending' = FALSE
  /\ \E fetchOk \in BOOLEAN :
       IF ~(ctxAlive /\ fetchOk)
         THEN /\ strOrDie_abort
              /\ UNCHANGED <<localTag, localTarget, conv, wsReturned, lastSeen>>
         ELSE /\ localTag' = FetchedTag
              /\ localTarget' = FetchedTarget
              /\ lastSeen' = Seen(ignoreErr(revlist(FetchedTag).out, revlist(FetchedTag).err))
              /\ UNCHANGED procAborted
              /\ LET res == revlist(FetchedTag)
                     syncRev == ignoreErr(res.out, res.err)
                 IN IF syncRev = headRev
                      THEN /\ pc' = "vs_check"
                           /\ wsReturned' = TRUE
                           /\ conv' = Observed(TRUE)
                      ELSE /\ pc' = "ws_select"
                           /\ UNCHANGED <<conv, wsReturned>>
  /\ UNCHANGED report
  /\ UNCHANGED <<evalStarts, tickerMade>>
  /\ UNCHANGED <<mainVars, cmdVars, helmVars, upVars>>
  /\ UNCHANGED <<variant, timeout, targetRemote, now, deadline, nextTick,
                 evalEnd, lastErr, untilRes, evalLog, evalTimes, retAt,
                 remoteTag, remoteMaster, headRev, got, diff, svcCalls,
                 errCount, testFailed>>

\* waitForSync, case <-ctx.Done(): h.t.Fatalf("Failed to sync to revision").
waitForSync_done ==
  /\ pc = "ws_select"
  /\ now >= deadline
  /\ pc' = "t_fatal"
  /\ testFailed' = TRUE
  /\ report' = Fatalf({<<"target", headRev>>})
  /\ UNCHANGED lastSeen
  /\ UNCHANGED <<evalStarts, tickerMade>>
  /\ UNCHANGED <<mainVars, cmdVars, helmVars, upVars>>
  /\ UNCHANGED <<variant, timeout, targetRemote, now, deadline, tickPending,
                 nextTick, evalEnd, lastErr, untilRes, evalLog, evalTimes,
                 retAt, remoteTag, remoteMaster, localTag, localTarget, headRev,
                 conv, wsReturned, got, diff, svcCalls, errCount, procAborted>>

\* ------------------------------------- verifySyncAndSvcs and services
\* verifySyncAndSvcs: the test `for got == nil || diff != ""`; the body calls
\* services, which enters servicesAPICall (a fresh ticker, err unset).
verifySyncAndSvcs_loop ==
  /\ pc = "vs_check"
  /\ IF got = "nil" \/ diff
       THEN /\ pc' = "svc_select"
            /\ svcCalls' = Min(svcCalls + 1, MaxErrs + 1)
            /\ NewTicker
            /\ lastErr' = NoErr
       ELSE /\ pc' = "vs_end"
            /\ UNCHANGED <<svcCalls, tickPending, nextTick, lastErr, tickerMade>>
  /\ UNCHANGED <<report, lastSeen, evalStarts>>
  /\ UNCHANGED <<mainVars, cmdVars, helmVars, upVars>>
  /\ UNCHANGED <<variant, timeout, targetRemote, now, deadline, evalEnd,
                 untilRes, evalLog, evalTimes, retAt, remoteTag, remoteMaster,
                 localTag, localTarget, headRev, conv, wsReturned, got, diff,
                 errCount, testFailed, procAborted>>

\* What api.ListServices(ctx, namespace) can answer: an error, or controllers
\* whose images match or differ from the expected ones; only an error once ctx
\* has expired.
ListServices == IF ctxAlive THEN {"err", "match", "differ"} ELSE {"err"}

\* servicesAPICall, case <-ticker.C: on success services builds the map and
\* verifySyncAndSvcs diffs it; on error the loop goes on.
servicesAPICall_tick ==
  /\ pc = "svc_select"
  /\ tickPending
  /\ tickPending' = FALSE
  /\ \E res \in ListServices :
       IF res = "err"
         THEN /\ lastErr' = Err("api", 0, 0)
              /\ pc' = "svc_select"
              /\ UNCHANGED <<got, diff>>
         ELSE /\ got' = res
              /\ diff' = cmpDiff(res)
              /\ pc' = "vs_check"
              /\ UNCHANGED lastErr
  /\ UNCHANGED <<report, lastSeen, evalStarts, tickerMade>>
  /\ UNCHANGED <<mainVars, cmdVars, helmVars, upVars>>
  /\ UNCHANGED <<variant, timeout, targetRemote, now, deadline, nextTick,
                 evalEnd, untilRes, evalLog, evalTimes, retAt, remoteTag,
                 remoteMaster, localTag, localTarget, headRev, conv, wsReturned,
                 svcCalls, errCount, testFailed, procAborted>>

\* servicesAPICall, case <-ctx.Done(): returns (nil, error); services records
\* it with t.Errorf and returns the empty map, which differs from expected.
servicesAPICall_done ==
  /\ pc = "svc_select"
  /\ now >= deadline
  /\ errCount' = Min(errCount + 1, MaxErrs)
  /\ testFailed' = TRUE
  /\ got' = "empty"
  /\ diff' = cmpDiff("empty")
  /\ pc' = "vs_check"
  /\ UNCHANGED <<report, lastSeen, evalStarts, tickerMade>>
  /\ UNCHANGED <<mainVars, cmdVars, helmVars, upVars>>
  /\ UNCHANGED <<variant, timeout, targetRemote, now, deadline, tickPending,
                 nextTick, evalEnd, lastErr, untilRes, evalLog, evalTimes,
                 retAt, remoteTag, remoteMaster, localTag, localTarget, headRev,
                 conv, wsReturned, svcCalls, procAborted>>

\* verifySyncAndSvcs after the loop: cancel(), the report if diff != "", return.
verifySyncAndSvcs_end ==
  /\ pc = "vs_end"
  /\ errCount' = IF diff THEN Min(errCount + 1, MaxErrs) ELSE errCount
  /\ testFailed' = (testFailed \/ diff)
  /\ pc' = "returned"
  /\ UNCHANGED <<report, lastSeen, evalStarts, tickerMade>>
  /\ UNCHANGED <<mainVars, cmdVars, helmVars, upVars>>
  /\ UNCHANGED <<variant, timeout, targetRemote, now, deadline, tickPending,
                 nextTick, evalEnd, lastErr, untilRes, evalLog, evalTimes,
                 retAt, remoteTag, remoteMaster, localTag, localTarget, headRev,
                 conv, wsReturned, got, diff, svcCalls, procAborted>>

\* ------------------------------------------------- clock and flux
\* The unit of work waits: no channel of its select is ready, or its predicate
\* has not returned yet.
Blocked ==
  \/ /\ pc \in {"u_wait", "ws_select", "svc_select", "wc_select"}
     /\ ~tickPending
     /\ now < deadline
  \/ pc = "u_eval" /\ now < evalEnd /\ now < deadline

\* Time passes; the ticker puts a tick in its channel when its time has come.
Advance ==
  /\ Blocked
  /\ now' = now + 1
  /\ IF now + 1 = nextTick
       THEN tickPending' = TRUE /\ nextTick' = nextTick + TickLen
       ELSE UNCHANGED <<tickPending, nextTick>>
  /\ UNCHANGED <<report, lastSeen, evalStarts, tickerMade>>
  /\ UNCHANGED <<mainVars, cmdVars, helmVars, upVars>>
  /\ UNCHANGED <<variant, timeout, targetRemote, deadline, pc, evalEnd, lastErr,
                 untilRes, evalLog, evalTimes, retAt, remoteTag, remoteMaster,
                 localTag, localTarget, headRev, conv, wsReturned, got, diff,
                 svcCalls, errCount, testFailed, procAborted>>

Running == pc \notin {"g_done", "t_fatal", "aborted", "returned"}

\* flux moves the sync tag to the commit it has applied (master's head).
FluxSync ==
  /\ variant # "generic"
  /\ Running
  /\ remoteTag # remoteMaster
  /\ remoteTag' = remoteMaster
  /\ UNCHANGED <<report, lastSeen, evalStarts, tickerMade>>
  /\ UNCHANGED <<mainVars, cmdVars, helmVars, upVars>>
  /\ UNCHANGED <<variant, timeout, targetRemote, now, deadline, pc, tickPending,
                 nextTick, evalEnd, lastErr, untilRes, evalLog, evalTimes, retAt,
                 remoteMaster, localTag, localTarget, headRev, conv, wsReturned,
                 got, diff, svcCalls, errCount, testFailed, procAborted>>

\* flux (automation) pushes a commit of its own to master.
FluxCommit ==
  /\ variant # "generic"
  /\ Running
  /\ remoteMaster < MaxRev
  /\ remoteMaster' = remoteMaster + 1
  /\ UNCHANGED <<report, lastSeen, evalStarts, tickerMade>>
  /\ UNCHANGED <<mainVars, cmdVars, helmVars, upVars>>
  /\ UNCHANGED <<variant, timeout, targetRemote, now, deadline, pc, tickPending,
                 nextTick, evalEnd, lastErr, untilRes, evalLog, evalTimes, retAt,
                 remoteTag, localTag, localTarget, headRev, conv, wsReturned,
                 got, diff, svcCalls, errCount, testFailed, procAborted>>

\* ------------------------------------------------------ the suite
\* The test functions, in the order m.Run runs them (none calls t.Parallel).
Tests == <<"TestSync", "TestAutomation">>

\* A step of suite setup: what the code does when it fails ("fatal": log.Fatal
\* or log.Fatalf, "ignore": the error is dropped, "never": it cannot fail),
\* the flag that guards it, whether it is a version check, the node IP lookup,
\* a namespace, secret or configmap creation or the known-hosts write, and
\* the fields of global it assigns.
S(name, fail, when, listed, sets) ==
  [name |-> name, fail |-> fail, when |-> when, listed |-> listed, sets |-> sets]

\* A step of a test: the ways it can fail ("die": strOrDie, "logfatal":
\* log.Fatalf or global.must, "tfatal": t.Fatal, "terror": t.Errorf,
\* "ignore": the error is dropped), the resource it creates, deletes or
\* overwrites, and whether that resource's name is derived from t.Name().
T(name, fail, res, own) ==
  [name |-> name, fail |-> fail, res |-> res, own |-> own]

\* package main: TestMain followed by setup.run.
SetupSteps_main ==
  << S("newsetup", "fatal", "always", FALSE, {"workdir", "profile"}),
     S("defer_clean", "never", "notKeep", FALSE, {}),
     S("verifyMinikube", "fatal", "always", TRUE, {}),
     S("helm_client_version", "fatal", "always", TRUE, {}),
     S("minikube_delete", "fatal", "start", FALSE, {}),
     S("minikube_start", "fatal", "start", FALSE, {}),
     S("minikube_ip", "fatal", "always", TRUE, {"clusterIP"}),
     S("verifyKubernetes", "fatal", "always", TRUE, {}),
     S("helm_server_version", "fatal", "always", TRUE, {}),
     S("loadDocker_flux", "fatal", "always", FALSE, {}),
     S("loadDocker_operator", "fatal", "always", FALSE, {}),
     S("ssh_keyscan", "fatal", "always", FALSE, {}),
     S("write_known_hosts", "ignore", "always", TRUE, {}),
     S("delete_secret", "ignore", "always", FALSE, {}),
     S("create_secret", "fatal", "always", TRUE, {}),
     S("delete_configmap", "ignore", "always", FALSE, {}),
     S("create_configmap", "fatal", "always", TRUE, {}) >>

\* package test, with the helm capability built only when minikube is started.
SetupSteps_test_helm_optional ==
  << S("setEnvPath", "fatal", "always", FALSE, {}),
     S("newsetup", "fatal", "always", FALSE, {"testroot", "profile"}),
     S("defer_clean", "never", "notKeep", FALSE, {}),
     S("genSshPrivateKey", "fatal", "always", FALSE, {}),
     S("mustNewMinikube", "fatal", "always", TRUE, {}),
     S("minikube_delete", "ignore", "start", FALSE, {}),
     S("minikube_start", "fatal", "start", FALSE, {}),
     S("nodeIP", "fatal", "always", TRUE, {"clusterAPI", "clusterIP"}),
     S("mustNewKubectl", "fatal", "always", FALSE, {"kubectlAPI"}),
     S("mustNewHelm", "fatal", "start", FALSE, {"helmAPI"}),
     S("loadDockerImage_flux", "fatal", "imgs", FALSE, {}),
     S("loadDockerImage_operator", "fatal", "imgs", FALSE, {}),
     S("create_namespace", "ignore", "always", TRUE, {}),
     S("helm_delete_cd", "ignore", "always", FALSE, {}) >>

\* package test: TestMain.
SetupSteps_test ==
  << S("setEnvPath", "fatal", "always", FALSE, {}),
     S("newsetup", "fatal", "always", FALSE, {"testroot", "profile"}),
     S("defer_clean", "never", "notKeep", FALSE, {}),
     S("genSshPrivateKey", "fatal", "always", FALSE, {}),
     S("mustNewMinikube", "fatal", "always", TRUE, {}),
     S("minikube_delete", "ignore", "start", FALSE, {}),
     S("minikube_start", "fatal", "start", FALSE, {}),
     S("nodeIP", "fatal", "always", TRUE, {"clusterAPI", "clusterIP"}),
     S("mustNewKubectl", "fatal", "always", FALSE, {"kubectlAPI"}),
     S("mustNewHelm", "fatal", "always", FALSE, {"helmAPI"}),
     S("loadDockerImage_flux", "fatal", "imgs", FALSE, {}),
     S("loadDockerImage_operator", "fatal", "imgs", FALSE, {}),
     S("create_namespace", "ignore", "always", TRUE, {}),
     S("helm_delete_cd", "ignore", "always", FALSE, {}) >>

SetupSteps(v) == IF v = "main" THEN SetupSteps_main ELSE SetupSteps_test

\* The guard of a setup step under the flags given.
Applies(s) ==
  CASE s.when = "always"  -> TRUE
    [] s.when = "start"   -> startMinikube
    [] s.when = "notKeep" -> ~keepWorkdir
    [] s.when = "imgs"    -> ~driverNone

\* The setup steps this run goes through.
setupProg == SelectSeq(SetupSteps(version), Applies)

\* The names of the setup steps whose failure setup has to stop at.
Listed(v) == {SetupSteps(v)[i].name : i \in {j \in DOMAIN SetupSteps(v) : SetupSteps(v)[j].listed}}

\* package main: newharness, then the body of the test function.
HarnessSteps_main ==
  << T("newharness", {"logfatal"}, "repodir", TRUE),
     T("setupGitRemote", {"die"}, "remote_repo", FALSE),
     T("delete_flux_deploy", {"ignore"}, "deploy_flux", FALSE),
     T("writeFluxDeployment", {"tfatal"}, "flux_deploy_yaml", FALSE),
     T("apply_flux", {"die"}, "deploy_flux", FALSE),
     T("git_init", {"die"}, "repodir", TRUE),
     T("git_remote_add", {"ignore"}, "repodir", TRUE),
     T("writeHelloWorldDeployment", {"tfatal"}, "repodir", TRUE),
     T("git_add_commit_push", {"die"}, "remote_repo", FALSE),
     T("verifySyncAndSvcs", {"die", "tfatal", "terror"}, "", FALSE) >>

AutomationSteps_main ==
  << T("automate", {"die"}, "", FALSE),
     T("waitForUpstreamCommits", {"die", "logfatal", "tfatal"}, "", FALSE),
     T("verifySyncAndSvcs", {"die", "tfatal", "terror"}, "", FALSE) >>

\* package test: newharness, applyFlux (installFluxChart), deployViaGit,
\* verifySyncAndSvcs.  The capabilities a harness owns report through t.
HarnessSteps_test ==
  << T("mkdir_testdir", {"ignore"}, "testdir", TRUE),
     T("delete_cm_ssh_public_keys", {"ignore"}, "cm_ssh_public_keys", FALSE),
     T("create_cm_ssh_public_keys", {"logfatal"}, "cm_ssh_public_keys", FALSE),
     T("delete_secret_flux_git_deploy", {"ignore"}, "secret_flux_git_deploy", FALSE),
     T("create_secret_flux_git_deploy", {"logfatal"}, "secret_flux_git_deploy", FALSE),
     T("installGitChart", {"tfatal"}, "helm_git", FALSE),
     T("ssh_keyscan", {"die"}, "", FALSE),
     T("write_known_hosts", {"ignore"}, "known_hosts_file", FALSE),
     T("delete_cm_ssh_known_hosts", {"ignore"}, "cm_ssh_known_hosts", FALSE),
     T("create_cm_ssh_known_hosts", {"logfatal"}, "cm_ssh_known_hosts", FALSE),
     T("mustNewGit", {"tfatal"}, "repodir", TRUE),
     T("helm_init", {"die"}, "", FALSE),
     T("helm_delete_cd", {"ignore"}, "helm_cd", FALSE),
     T("helm_delete_test1", {"ignore"}, "helm_test1", FALSE),
     T("helm_install_cd", {"die"}, "helm_cd", FALSE),
     T("writeHelloWorldDeployment", {"tfatal"}, "repodir", TRUE),
     T("mustAddCommitPush", {"tfatal"}, "remote_repo", FALSE),
     T("verifySyncAndSvcs", {"tfatal", "terror"}, "", FALSE) >>

AutomationSteps_test ==
  << T("automate", {"die"}, "", FALSE),
     T("waitForUpstreamCommits", {"tfatal"}, "", FALSE),
     T("verifySyncAndSvcs", {"tfatal", "terror"}, "", FALSE) >>

TestSync(v) == IF v = "main" THEN HarnessSteps_main ELSE HarnessSteps_test

TestAutomation(v) ==
  IF v = "main" THEN HarnessSteps_main \o AutomationSteps_main
                ELSE HarnessSteps_test \o AutomationSteps_test

testProg(v, t) == IF t = "TestSync" THEN TestSync(v) ELSE TestAutomation(v)

\* The name of the resource a step of test t works on.
ResName(s, t) == IF s.own THEN <<s.res, t>> ELSE <<s.res, "">>

\* The fields of the global setup (both packages) and their values: a value
\* is what it is and, for a capability, the logger it reports through.
AllFields == {"workdir", "testroot", "profile", "clusterIP", "clusterAPI",
              "kubectlAPI", "helmAPI"}

Unset == [kind |-> "unset", lg |-> ""]

FieldValue(f) ==
  CASE f = "clusterAPI" -> [kind |-> "minikube", lg |-> "stdLogger"]
    [] f = "kubectlAPI" -> [kind |-> "kubectl", lg |-> "stdLogger"]
    [] f = "helmAPI"    -> [kind |-> "helm", lg |-> "stdLogger"]
    [] OTHER            -> [kind |-> f, lg |-> ""]

\* global after the fields in sets have been assigned.
Assign(g, sets) == [f \in AllFields |-> IF f \in sets THEN FieldValue(f) ELSE g[f]]

\* No harness: before newharness and after the test function has returned.
NoHarness == [t |-> "", repodir |-> <<"", "">>, clusterIP |-> Unset,
              clusterAPI |-> Unset, helmAPI |-> Unset]

Retarget_keeps_logger(cap, t) == cap

\* A capability of the global setup, reporting through the test's reporter.
Retarget(cap, t) == IF cap = Unset THEN Unset ELSE [kind |-> cap.kind, lg |-> t]

\* The harness literal: its own repodir and reporter, the cluster address
\* and the capabilities taken from global.
newharness(t) ==
  [t |-> t, repodir |-> <<"repodir", t>>, clusterIP |-> global["clusterIP"],
   clusterAPI |-> Retarget(global["clusterAPI"], t),
   helmAPI |-> Retarget(global["helmAPI"], t)]

\* The steps after which the harness literal has been built.
HarnessBuilt == {"newharness", "mkdir_testdir"}

\* os.Exit: the process ends at once; deferred calls are not run.
os_Exit(code) ==
  /\ proc' = "exited"
  /\ exitCode' = code
  /\ UNCHANGED <<deferred, workdir>>

\* log.Fatal, log.Fatalf: print, then os.Exit(1).
log_Fatal == os_Exit(1)

InSetup == proc = "running" /\ ~mRun /\ m_pc <= Len(setupProg)

\* A setup step succeeds.
TestMain_step_ok ==
  /\ InSetup
  /\ LET s == setupProg[m_pc] IN
       /\ workdir' = IF s.name = "newsetup" THEN "exists" ELSE workdir
       /\ deferred' = IF s.name = "defer_clean" THEN <<"clean">> \o deferred
                                                ELSE deferred
       /\ fields' = fields \cup s.sets
  /\ m_pc' = m_pc + 1
  /\ UNCHANGED <<version, keepWorkdir, startMinikube, driverNone, proc, exitCode,
                 failedSetup, mRun, cur, t_pc, status, mutatedBy, dieIn>>
  /\ global' = Assign(global, setupProg[m_pc].sets)
  /\ UNCHANGED harness
  /\ UNCHANGED <<pollVars, cmdVars, helmVars, upVars>>

\* A setup step fails and the code ends the process.
TestMain_step_fatal ==
  /\ InSetup
  /\ setupProg[m_pc].fail = "fatal"
  /\ failedSetup' = failedSetup \cup {setupProg[m_pc].name}
  /\ log_Fatal
  /\ UNCHANGED <<version, keepWorkdir, startMinikube, driverNone, m_pc, fields,
                 mRun, cur, t_pc, status, mutatedBy, dieIn>>
  /\ UNCHANGED <<global, harness>>
  /\ UNCHANGED <<pollVars, cmdVars, helmVars, upVars>>

\* A setup step fails and the code drops the error.
TestMain_step_ignored ==
  /\ InSetup
  /\ setupProg[m_pc].fail = "ignore"
  /\ failedSetup' = failedSetup \cup {setupProg[m_pc].name}
  /\ fields' = fields \cup setupProg[m_pc].sets
  /\ m_pc' = m_pc + 1
  /\ UNCHANGED <<version, keepWorkdir, startMinikube, driverNone, proc, exitCode,
                 deferred, workdir, mRun, cur, t_pc, status, mutatedBy, dieIn>>
  /\ UNCHANGED <<global, harness>>
  /\ UNCHANGED <<pollVars, cmdVars, helmVars, upVars>>

\* m.Run is entered once setup has gone through.
m_Run ==
  /\ proc = "running" /\ ~mRun /\ m_pc > Len(setupProg)
  /\ mRun' = TRUE
  /\ cur' = 1
  /\ t_pc' = 0
  /\ UNCHANGED <<version, keepWorkdir, startMinikube, driverNone, proc, exitCode,
                 m_pc, deferred, workdir, fields, failedSetup, status,
                 mutatedBy, dieIn>>
  /\ UNCHANGED <<global, harness>>
  /\ UNCHANGED <<pollVars, cmdVars, helmVars, upVars>>

InRun == proc = "running" /\ mRun /\ cur <= Len(Tests)

\* The test runner calls the next test function.
tRunner_start ==
  /\ InRun /\ t_pc = 0
  /\ status' = [status EXCEPT ![Tests[cur]] = "running"]
  /\ t_pc' = 1
  /\ UNCHANGED <<version, keepWorkdir, startMinikube, driverNone, proc, exitCode,
                 m_pc, deferred, workdir, fields, failedSetup, mRun, cur,
                 mutatedBy, dieIn>>
  /\ UNCHANGED <<global, harness>>
  /\ UNCHANGED <<pollVars, cmdVars, helmVars, upVars>>

InTest == InRun /\ t_pc >= 1 /\ t_pc <= Len(testProg(version, Tests[cur]))

curStep == testProg(version, Tests[cur])[t_pc]

\* The resources mutated once the current step has acted.
Mutated(s, t) == IF s.res = "" THEN mutatedBy ELSE mutatedBy \cup {<<ResName(s, t), t>>}

\* A step of the current test succeeds.
test_step_ok ==
  /\ InTest
  /\ mutatedBy' = Mutated(curStep, Tests[cur])
  /\ t_pc' = t_pc + 1
  /\ UNCHANGED <<version, keepWorkdir, startMinikube, driverNone, proc, exitCode,
                 m_pc, deferred, workdir, fields, failedSetup, mRun, cur,
                 status, dieIn>>
  /\ harness' = IF curStep.name \in HarnessBuilt THEN newharness(Tests[cur]) ELSE harness
  /\ UNCHANGED global
  /\ UNCHANGED <<pollVars, cmdVars, helmVars, upVars>>

\* strOrDie: the command failed, log.Fatal(err).
test_step_die ==
  /\ InTest
  /\ "die" \in curStep.fail
  /\ dieIn' = dieIn \cup {Tests[cur]}
  /\ log_Fatal
  /\ UNCHANGED <<version, keepWorkdir, startMinikube, driverNone, m_pc, fields,
                 failedSetup, mRun, cur, t_pc, status, mutatedBy>>
  /\ UNCHANGED <<global, harness>>
  /\ UNCHANGED <<pollVars, cmdVars, helmVars, upVars>>

\* log.Fatalf or global.must in the course of a test.
test_step_logfatal ==
  /\ InTest
  /\ "logfatal" \in curStep.fail
  /\ log_Fatal
  /\ UNCHANGED <<version, keepWorkdir, startMinikube, driverNone, m_pc, fields,
                 failedSetup, mRun, cur, t_pc, status, mutatedBy, dieIn>>
  /\ UNCHANGED <<global, harness>>
  /\ UNCHANGED <<pollVars, cmdVars, helmVars, upVars>>

\* t.Fatal, t.Fatalf: the test is marked failed and its goroutine exits; the
\* runner goes on to the next test.
test_step_tfatal ==
  /\ InTest
  /\ "tfatal" \in curStep.fail
  /\ status' = [status EXCEPT ![Tests[cur]] = "fail"]
  /\ cur' = cur + 1
  /\ t_pc' = 0
  /\ UNCHANGED <<version, keepWorkdir, startMinikube, driverNone, proc, exitCode,
                 m_pc, deferred, workdir, fields, failedSetup, mRun,
                 mutatedBy, dieIn>>
  /\ harness' = NoHarness
  /\ UNCHANGED global
  /\ UNCHANGED <<pollVars, cmdVars, helmVars, upVars>>

\* t.Errorf: the test is marked failed and goes on.
test_step_terror ==
  /\ InTest
  /\ "terror" \in curStep.fail
  /\ status' = [status EXCEPT ![Tests[cur]] = "failing"]
  /\ t_pc' = t_pc + 1
  /\ UNCHANGED <<version, keepWorkdir, startMinikube, driverNone, proc, exitCode,
                 m_pc, deferred, workdir, fields, failedSetup, mRun, cur,
                 mutatedBy, dieIn>>
  /\ UNCHANGED <<global, harness>>
  /\ UNCHANGED <<pollVars, cmdVars, helmVars, upVars>>

\* The command failed and the code dropped the error.
test_step_ignored ==
  /\ InTest
  /\ "ignore" \in curStep.fail
  /\ t_pc' = t_pc + 1
  /\ UNCHANGED <<version, keepWorkdir, startMinikube, driverNone, proc, exitCode,
                 m_pc, deferred, workdir, fields, failedSetup, mRun, cur,
                 status, mutatedBy, dieIn>>
  /\ harness' = IF curStep.name \in HarnessBuilt THEN newharness(Tests[cur]) ELSE harness
  /\ UNCHANGED global
  /\ UNCHANGED <<pollVars, cmdVars, helmVars, upVars>>

\* The test function returns.
tRunner_finish ==
  /\ InRun /\ t_pc > Len(testProg(version, Tests[cur]))
  /\ status' = [status EXCEPT ![Tests[cur]] =
                  IF @ = "failing" THEN "fail" ELSE "pass"]
  /\ cur' = cur + 1
  /\ t_pc' = 0
  /\ UNCHANGED <<version, keepWorkdir, startMinikube, driverNone, proc, exitCode,
                 m_pc, deferred, workdir, fields, failedSetup, mRun,
                 mutatedBy, dieIn>>
  /\ harness' = NoHarness
  /\ UNCHANGED global
  /\ UNCHANGED <<pollVars, cmdVars, helmVars, upVars>>

\* m.Run's result: 0 if every test passed, 1 otherwise.
m_Run_code == IF \E i \in DOMAIN Tests : status[Tests[i]] = "fail" THEN 1 ELSE 0

\* os.Exit(m.Run()).
TestMain_exit ==
  /\ proc = "running" /\ mRun /\ cur > Len(Tests)
  /\ os_Exit(m_Run_code)
  /\ UNCHANGED <<version, keepWorkdir, startMinikube, driverNone, m_pc, fields,
                 failedSetup, mRun, cur, t_pc, status, mutatedBy, dieIn>>
  /\ UNCHANGED <<global, harness>>
  /\ UNCHANGED <<pollVars, cmdVars, helmVars, upVars>>

\* The suite before TestMain is entered.
mainStart ==
  /\ proc = "running"
  /\ exitCode = 0
  /\ m_pc = 1
  /\ deferred = <<>>
  /\ workdir = "none"
  /\ fields = {}
  /\ failedSetup = {}
  /\ mRun = FALSE
  /\ cur = 0
  /\ t_pc = 0
  /\ status = [t \in {Tests[i] : i \in DOMAIN Tests} |-> "pending"]
  /\ mutatedBy = {}
  /\ dieIn = {}
  /\ global = [f \in AllFields |-> Unset]
  /\ harness = NoHarness

\* One run of one test's polling: the suite's flags are fixed.
pollFlags ==
  /\ version = "test"
  /\ keepWorkdir = FALSE
  /\ startMinikube = FALSE
  /\ driverNone = FALSE

\* The polling state before any test has polled.
pollStart ==
  /\ now = 0
  /\ deadline = 0
  /\ pc = "start"
  /\ tickPending = FALSE
  /\ nextTick = 0
  /\ evalEnd = 0
  /\ lastErr = NoErr
  /\ untilRes = Pending
  /\ evalLog = <<>>
  /\ evalTimes = <<>>
  /\ retAt = 0
  /\ remoteMaster = 1
  /\ localTag = 0
  /\ localTarget = 1
  /\ headRev = 0
  /\ conv = NoConv
  /\ wsReturned = FALSE
  /\ got = "nil"
  /\ diff = FALSE
  /\ svcCalls = 0
  /\ errCount = 0
  /\ testFailed = FALSE
  /\ procAborted = FALSE
  /\ report = NoReport
  /\ lastSeen = NotSeen
  /\ evalStarts = <<>>
  /\ tickerMade = 0

\* ------------------------------------------------ the command runner
\* A call site of the command runner: the argv, the wrapper around envExec
\* ("ignoreErr", "strOrDie", or "none" when the caller drops both results),
\* what the command does to a resource and which one.
C(args, wrap, kind, res) == [args |-> args, wrap |-> wrap, kind |-> kind, res |-> res]

NoCall == C(<<>>, "none", "other", "")

Calls ==
  { C(<<"git", "rev-list", "-n", "1", "flux-sync">>, "ignoreErr", "lookup", "flux-sync"),
    C(<<"kubectl", "delete", "secret", "flux-git-deploy">>, "ignoreErr", "delete", "flux-git-deploy"),
    C(<<"kubectl", "create", "secret", "generic", "flux-git-deploy">>, "strOrDie", "create", "flux-git-deploy"),
    C(<<"helm", "delete", "--purge", "cd">>, "ignoreErr", "delete", "cd"),
    C(<<"helm", "install", "--name", "cd">>, "strOrDie", "create", "cd"),
    C(<<"git", "remote", "add", "origin">>, "none", "other", ""),
    C(<<"git", "push", "-u", "origin", "master">>, "strOrDie", "other", "") }

\* How a run of the child process goes: it runs to its exit, the context has
\* expired before it starts, or the context expires and kills it.
Hows == {"run", "ctx", "killed"}

\* Whether the command exits with status 0; ok decides for the commands whose
\* outcome does not depend on a modelled resource.
Succeeds(call, how, ok) ==
  /\ how = "run"
  /\ CASE call.kind = "lookup" -> call.res \in present
       [] call.kind = "delete" -> call.res \in present
       [] call.kind = "create" -> call.res \notin present
       [] OTHER                -> ok

\* cmd.CombinedOutput(): the error of the run ("" for nil) and what the child
\* wrote to stdout and stderr (0: nothing).
CombinedOutput(call, how, ok, text) ==
  [cause |-> IF Succeeds(call, how, ok) THEN ""
             ELSE IF how = "run" THEN "exit status 1"
             ELSE IF how = "ctx" THEN "context deadline exceeded"
             ELSE "signal: killed",
   out |-> IF how = "ctx" THEN 0 ELSE text]

NoRun == [cause |-> "", out |-> 0]

\* The nil error.
NilError == [text |-> "", args |-> <<>>, cause |-> "", out |-> 0]

\* fmt.Errorf("error running %v: %v\nOutput:\n%s", cmd.Args, err, out).
Errorf(args, cause, out) ==
  [text |-> "error running", args |-> args, cause |-> cause, out |-> out]

envExec_error_without_output(args, raw) ==
  [out |-> raw.out,
   err |-> IF raw.cause = "" THEN NilError ELSE Errorf(args, raw.cause, 0)]

\* envExec: (string(out), err), err wrapped when the run failed.
envExec(args, raw) ==
  [out |-> raw.out,
   err |-> IF raw.cause = "" THEN NilError ELSE Errorf(args, raw.cause, raw.out)]

NoResult == [out |-> 0, err |-> NilError]

\* What the command leaves of the resources.
Effect(call, how, ok) ==
  IF ~Succeeds(call, how, ok) THEN present
  ELSE IF call.kind = "delete" THEN present \ {call.res}
  ELSE IF call.kind = "create" THEN present \cup {call.res}
  ELSE present

\* Why a lookup gave what it gave.
Class(raw) ==
  IF raw.cause = "" THEN "found"
  ELSE IF raw.cause = "exit status 1" THEN "absent"
  ELSE "failed"

\* envExec is called and the child process has ended.
exec_call ==
  /\ c_pc = "idle"
  /\ ~c_exit
  /\ \E call \in Calls, how \in Hows, ok \in BOOLEAN, text \in 0..MaxOut :
       /\ c_call' = call
       /\ c_raw' = CombinedOutput(call, how, ok, text)
       /\ c_res' = envExec(call.args, CombinedOutput(call, how, ok, text))
       /\ present' = Effect(call, how, ok)
  /\ c_prev' = [call |-> c_call, cause |-> c_raw.cause]
  /\ c_pc' = "ran"
  /\ UNCHANGED <<c_seen, c_exit, seenFor>>
  /\ UNCHANGED <<pollVars, mainVars, helmVars, upVars>>

\* The caller's record of what each kind of failed lookup looked like.
Recorded ==
  IF c_call.kind = "lookup" /\ Class(c_raw) # "found"
    THEN seenFor \cup {<<Class(c_raw), ignoreErr(c_res.out, c_res.err # NilError)>>}
    ELSE seenFor

ignoreErr_return_dies ==
  /\ c_pc = "ran"
  /\ c_call.wrap = "ignoreErr"
  /\ c_seen' = ignoreErr(c_res.out, c_res.err # NilError)
  /\ c_exit' = (c_res.err # NilError)
  /\ seenFor' = Recorded
  /\ c_pc' = "idle"
  /\ UNCHANGED <<c_call, c_raw, c_res, c_prev, present>>
  /\ UNCHANGED <<pollVars, mainVars, helmVars, upVars>>

\* ignoreErr(envExec(...)) returns to the caller.
ignoreErr_return ==
  /\ c_pc = "ran"
  /\ c_call.wrap = "ignoreErr"
  /\ c_seen' = ignoreErr(c_res.out, c_res.err # NilError)
  /\ seenFor' = Recorded
  /\ c_pc' = "idle"
  /\ UNCHANGED <<c_call, c_raw, c_res, c_prev, c_exit, present>>
  /\ UNCHANGED <<pollVars, mainVars, helmVars, upVars>>

\* strOrDie(envExec(...)): the output, or log.Fatal(err).
strOrDie_return ==
  /\ c_pc = "ran"
  /\ c_call.wrap = "strOrDie"
  /\ IF c_res.err # NilError
       THEN c_exit' = TRUE /\ UNCHANGED c_seen
       ELSE c_seen' = c_res.out /\ UNCHANGED c_exit
  /\ c_pc' = "idle"
  /\ UNCHANGED <<c_call, c_raw, c_res, c_prev, present, seenFor>>
  /\ UNCHANGED <<pollVars, mainVars, helmVars, upVars>>

\* envExec returns to a caller that uses neither result.
envExec_return ==
  /\ c_pc = "ran"
  /\ c_call.wrap = "none"
  /\ c_seen' = c_res.out
  /\ c_pc' = "idle"
  /\ UNCHANGED <<c_call, c_raw, c_res, c_prev, c_exit, present, seenFor>>
  /\ UNCHANGED <<pollVars, mainVars, helmVars, upVars>>

\* flux tags the revision it has synced.
flux_tags ==
  /\ c_pc = "idle"
  /\ "flux-sync" \notin present
  /\ present' = present \cup {"flux-sync"}
  /\ UNCHANGED <<c_pc, c_call, c_raw, c_res, c_prev, c_seen, c_exit, seenFor>>
  /\ UNCHANGED <<pollVars, mainVars, helmVars, upVars>>

\* No command has been run.
cmdStart ==
  /\ c_pc = "idle"
  /\ c_call = NoCall
  /\ c_raw = NoRun
  /\ c_res = NoResult
  /\ c_prev = [call |-> NoCall, cause |-> ""]
  /\ c_seen = 0
  /\ c_exit = FALSE
  /\ present = {}
  /\ seenFor = {}

\* ------------------------------------------------ the helm release checks
\* TestChartUpdateViaHelm: assertHelmReleaseDeployed, an out-of-band helm
\* upgrade, assertHelmReleaseHasValue for the value set, then for the value the
\* operator reverts to. Both assertions poll through until.
MaxHistory == 4

HelmMaxTimeout == 5

\* pollInterval, the operator's git poll interval the last assertion allows for.
PollIntervalLen == 1

\* The value the test sets out of band, and what yq prints for an absent key.
SetValue == "greetings"

NullValue == "null"

\* One entry of tiller's history of the release: its status and the value of
\* the key at that revision. The revision is the entry's position.
Release(st, val) == [status |-> st, val |-> val]

\* The zero value of helmHistory.
NoHist == [rev |-> 0, status |-> ""]

\* helm history test1 -ojson: revision and status of every entry.
helm_history(rs) == [i \in 1..Len(rs) |-> [rev |-> i, status |-> rs[i].status]]

\* helm get values --revision rev | yq r - key.
helm_get_values(rs, rev) == rs[rev].val

\* lastHelmRelease on the parsed history: t.Errorf when the history is empty or
\* the last entry has no status, then hist[len(hist)-1], which panics (index out
\* of range) when the history is empty.
lastHelmRelease(out) ==
  IF Len(out) = 0
    THEN [kind |-> "panic", errorf |-> TRUE, hist |-> NoHist]
    ELSE [kind |-> "return", errorf |-> (out[Len(out)].status = ""),
          hist |-> out[Len(out)]]

helmReleaseDeployed_any_status(hist, minRevision) ==
  IF hist.rev < minRevision THEN Err("revision", hist.rev, minRevision)
  ELSE NoErr

\* helmReleaseDeployed: the revision is at least minRevision and the status is
\* DEPLOYED.
helmReleaseDeployed(hist, minRevision) ==
  IF hist.rev < minRevision THEN Err("revision", hist.rev, minRevision)
  ELSE IF hist.status # "DEPLOYED" THEN Err("status", hist.rev, 0)
  ELSE NoErr

helmReleaseHasValue_reads_latest(rs, hist) == helm_get_values(rs, Len(rs))

\* helmReleaseHasValue: the value is read at the revision lastHelmRelease gave.
helmReleaseHasValue_read(rs, hist) == helm_get_values(rs, hist.rev)

\* helmReleaseHasValue: the comparison of the value read.
helmReleaseHasValue_cmp(hist, yqout, val) ==
  IF val # yqout THEN Err("value", hist.rev, 0) ELSE NoErr

\* What a passing evaluation had in hand, for the record.
Observation(hist, yqout) ==
  [phase |-> h_phase, rev |-> hist.rev, status |-> hist.status, val |-> yqout,
   min |-> h_min, want |-> h_want, at |-> now, by |-> deadline,
   latest |-> Len(releases)]

HelmActive == pc \notin {"t_fatal", "aborted", "panicked", "h_done"}

\* The variables of the sync checks, which the helm checks leave alone.
syncVars == <<targetRemote, remoteTag, remoteMaster, localTag, localTarget,
              headRev, conv, wsReturned, got, diff, svcCalls, lastSeen>>

\* The predicate's lookup of the history: helmOrDie(history), lastHelmRelease,
\* helmReleaseDeployed. In assertHelmReleaseDeployed that is the whole
\* predicate; in helmReleaseHasValue the value is read next.
helm_lookup ==
  /\ pc = "u_eval"
  /\ variant = "helm"
  /\ now = evalEnd
  /\ now <= deadline
  /\ \E ok \in BOOLEAN :
       LET r == lastHelmRelease(helm_history(releases))
           e == helmReleaseDeployed(r.hist, h_min)
       IN  IF ~ok
             THEN /\ strOrDie_abort
                  /\ UNCHANGED <<lastErr, untilRes, evalLog, evalTimes, retAt,
                                 errCount, testFailed, h_hist, h_ok>>
           ELSE IF r.kind = "panic"
             THEN /\ pc' = "panicked"
                  /\ errCount' = Min(errCount + 1, MaxErrs)
                  /\ testFailed' = TRUE
                  /\ UNCHANGED <<lastErr, untilRes, evalLog, evalTimes, retAt,
                                 procAborted, h_hist, h_ok>>
           ELSE IF h_phase # "deployed" /\ e = NoErr
             THEN /\ pc' = "h_values"
                  /\ h_hist' = r.hist
                  /\ errCount' = IF r.errorf THEN Min(errCount + 1, MaxErrs)
                                 ELSE errCount
                  /\ testFailed' = (testFailed \/ r.errorf)
                  /\ UNCHANGED <<lastErr, untilRes, evalLog, evalTimes, retAt,
                                 procAborted, h_ok>>
           ELSE /\ until_handle(e)
                /\ h_hist' = r.hist
                /\ errCount' = IF r.errorf THEN Min(errCount + 1, MaxErrs)
                               ELSE errCount
                /\ testFailed' = (testFailed \/ r.errorf)
                /\ h_ok' = IF e = NoErr
                             THEN Append(h_ok, Observation(r.hist, ""))
                             ELSE h_ok
                /\ UNCHANGED procAborted
  /\ UNCHANGED <<h_phase, releases, h_min, h_want, h_ret>>
  /\ UNCHANGED <<variant, timeout, now, deadline, tickPending, nextTick,
                 evalEnd, report, evalStarts, tickerMade>>
  /\ UNCHANGED syncVars
  /\ UNCHANGED <<mainVars, cmdVars, upVars>>

\* helmReleaseHasValue after the lookup: helmOrDie(get values --revision),
\* strOrDie(yq), the comparison.
helmReleaseHasValue_values ==
  /\ pc = "h_values"
  /\ \E ok \in BOOLEAN :
       LET yqout == helmReleaseHasValue_read(releases, h_hist)
           e == helmReleaseHasValue_cmp(h_hist, yqout, h_want)
       IN  IF ~ok
             THEN /\ strOrDie_abort
                  /\ UNCHANGED <<lastErr, untilRes, evalLog, evalTimes, retAt,
                                 h_ok>>
             ELSE /\ until_handle(e)
                  /\ h_ok' = IF e = NoErr
                               THEN Append(h_ok, Observation(h_hist, yqout))
                               ELSE h_ok
                  /\ UNCHANGED procAborted
  /\ UNCHANGED <<h_phase, releases, h_hist, h_min, h_want, h_ret>>
  /\ UNCHANGED <<variant, timeout, now, deadline, tickPending, nextTick,
                 evalEnd, report, evalStarts, tickerMade, errCount, testFailed>>
  /\ UNCHANGED syncVars
  /\ UNCHANGED <<mainVars, cmdVars, upVars>>

\* exitif(until(...)): t.Fatal on an error; otherwise the assertion returns
\* and the test goes on to its next statement.
helm_exitif ==
  /\ pc = "h_exitif"
  /\ IF untilRes.kind # "nil"
       THEN /\ pc' = "t_fatal"
            /\ testFailed' = TRUE
            /\ report' = Fatalf({})
            /\ UNCHANGED <<h_phase, h_ret, h_min, h_want, timeout, untilRes,
                           evalLog, evalTimes, evalStarts>>
     ELSE IF h_phase = "deployed"
       THEN /\ h_ret' = h_hist.rev
            /\ h_phase' = "upgrade"
            /\ pc' = "h_upgrade"
            /\ UNCHANGED <<h_min, h_want, timeout, untilRes, evalLog,
                           evalTimes, evalStarts, testFailed, report>>
     ELSE IF h_phase = "hasValue"
       THEN /\ h_phase' = "reverted"
            /\ h_want' = NullValue
            /\ timeout' = timeout + PollIntervalLen
            /\ untilRes' = Pending
            /\ evalLog' = <<>>
            /\ evalTimes' = <<>>
            /\ evalStarts' = <<>>
            /\ pc' = "start"
            /\ UNCHANGED <<h_ret, h_min, testFailed, report>>
     ELSE /\ h_phase' = "done"
          /\ pc' = "h_done"
          /\ UNCHANGED <<h_ret, h_min, h_want, timeout, untilRes, evalLog,
                         evalTimes, evalStarts, testFailed, report>>
  /\ UNCHANGED <<releases, h_hist, h_ok>>
  /\ UNCHANGED <<variant, now, deadline, tickPending, nextTick, evalEnd,
                 lastErr, retAt, tickerMade, errCount, procAborted>>
  /\ UNCHANGED syncVars
  /\ UNCHANGED <<mainVars, cmdVars, upVars>>

\* The release with a new latest entry; the entry it replaces is superseded.
Upgraded(rs, entry) ==
  Append([i \in 1..Len(rs) |->
            IF i = Len(rs) /\ rs[i].status = "DEPLOYED"
              THEN Release("SUPERSEDED", rs[i].val) ELSE rs[i]],
         entry)

\* helmOrDie(upgrade test1 --set key=val), then the assertion that the value
\* shows at a revision after initialRevision.
helm_upgrade ==
  /\ pc = "h_upgrade"
  /\ \E ok \in BOOLEAN :
       IF ok /\ Len(releases) < MaxHistory /\ Len(releases) > 0
         THEN /\ releases' = Upgraded(releases, Release("DEPLOYED", SetValue))
              /\ h_phase' = "hasValue"
              /\ h_min' = h_ret + 1
              /\ h_want' = SetValue
              /\ untilRes' = Pending
              /\ evalLog' = <<>>
              /\ evalTimes' = <<>>
              /\ evalStarts' = <<>>
              /\ pc' = "start"
              /\ UNCHANGED procAborted
         ELSE /\ strOrDie_abort
              /\ UNCHANGED <<releases, h_phase, h_min, h_want, untilRes,
                             evalLog, evalTimes, evalStarts>>
  /\ UNCHANGED <<h_hist, h_ret, h_ok>>
  /\ UNCHANGED <<variant, timeout, now, deadline, tickPending, nextTick,
                 evalEnd, lastErr, retAt, tickerMade, errCount, testFailed,
                 report>>
  /\ UNCHANGED syncVars
  /\ UNCHANGED <<mainVars, cmdVars, upVars>>

\* The operator installs the release the chart in git describes.
operator_install ==
  /\ HelmActive
  /\ releases = <<>>
  /\ \E st \in {"DEPLOYED", "PENDING_INSTALL"} :
       releases' = <<Release(st, NullValue)>>
  /\ UNCHANGED <<h_phase, h_hist, h_min, h_want, h_ret, h_ok>>
  /\ UNCHANGED <<pollVars, mainVars, cmdVars, upVars>>

\* tiller finishes the install or upgrade in progress.
tiller_deployed ==
  /\ HelmActive
  /\ Len(releases) > 0
  /\ releases[Len(releases)].status \in {"PENDING_INSTALL", "PENDING_UPGRADE"}
  /\ releases' = [releases EXCEPT ![Len(releases)].status = "DEPLOYED"]
  /\ UNCHANGED <<h_phase, h_hist, h_min, h_want, h_ret, h_ok>>
  /\ UNCHANGED <<pollVars, mainVars, cmdVars, upVars>>

\* The operator upgrades the release to what git describes: the revert of a
\* value set out of band, or the upgrade that changes nothing.
operator_upgrade ==
  /\ HelmActive
  /\ Len(releases) > 0
  /\ Len(releases) < MaxHistory
  /\ releases[Len(releases)].status = "DEPLOYED"
  /\ \E st \in {"DEPLOYED", "PENDING_UPGRADE"} :
       releases' = Upgraded(releases, Release(st, NullValue))
  /\ UNCHANGED <<h_phase, h_hist, h_min, h_want, h_ret, h_ok>>
  /\ UNCHANGED <<pollVars, mainVars, cmdVars, upVars>>

\* The helm checks before the test's first assertion.
helmStart ==
  /\ h_phase = "deployed"
  /\ releases = <<>>
  /\ h_hist = NoHist
  /\ h_min = 1
  /\ h_want = ""
  /\ h_ret = 0
  /\ h_ok = <<>>

\* ------------------------------------------------ waitForUpstreamCommits
\* TestAutomation waits until flux has pushed mincount commits of its own:
\* ticker-based in the older snapshots, through until in the newest.
MaxCommits == 2

\* What `git rev-list --count HEAD..flux-sync` gave the caller: nothing (the
\* command failed and its error was dropped), a number, or something else.
NoOutput == [kind |-> "empty", n |-> 0]

Count(n) == [kind |-> "num", n |-> n]

NonNumeric == [kind |-> "junk", n |-> 0]

\* The outputs possible at a tick: the count of the commits fetched, or the
\* two degenerate ones.
CountOutputs == {NoOutput, NonNumeric, Count(commits)}

waitForUpstreamCommits_step_any_count(out, min) ==
  CASE out.kind = "empty" -> "retry"
    [] out.kind = "junk" -> "fatal"
    [] OTHER -> "success"

\* The tick's decision: strcount == "" is retried, strconv.Atoi failing is
\* fatal, a count below mincount is retried.
waitForUpstreamCommits_step(out, min) ==
  CASE out.kind = "empty" -> "retry"
    [] out.kind = "junk" -> "fatal"
    [] out.n < min -> "retry"
    [] OTHER -> "success"

\* The error the until-based predicate returns for out.
waitForUpstreamCommits_err(out, min) ==
  CASE waitForUpstreamCommits_step(out, min) = "success" -> NoErr
    [] out.kind = "empty" -> Err("nooutput", 0, 0)
    [] OTHER -> Err("fewer", out.n, min)

\* The record of one tick: when it was taken, what was printed, what followed.
Tick(at, out, res) == [out |-> out, res |-> res, at |-> at, upstream |-> commits]

\* until: waitForUpstreamCommits's predicate runs and returns.
until_return_waitForUpstreamCommits ==
  /\ pc = "u_eval"
  /\ variant = "untilCommits"
  /\ now = evalEnd
  /\ now <= deadline
  /\ \E fetchOk \in BOOLEAN :
       IF ~fetchOk
         THEN /\ predicate_fatal
              /\ UNCHANGED wc_seen
         ELSE \E out \in CountOutputs :
                LET res == waitForUpstreamCommits_step(out, mincount) IN
                /\ wc_seen' = Append(wc_seen,
                                     Tick(evalStarts[Len(evalStarts)], out, res))
                /\ IF res = "fatal"
                     THEN predicate_fatal
                     ELSE /\ until_handle(waitForUpstreamCommits_err(out, mincount))
                          /\ UNCHANGED <<testFailed, report>>
  /\ UNCHANGED <<mincount, commits>>
  /\ UNCHANGED <<variant, timeout, now, deadline, tickPending, nextTick,
                 evalEnd, evalStarts, tickerMade, errCount, procAborted>>
  /\ UNCHANGED syncVars
  /\ UNCHANGED <<mainVars, cmdVars, helmVars>>

\* waitForUpstreamCommits (until-based): h.must(until(...)).
waitForUpstreamCommits_must ==
  /\ pc = "wc_must"
  /\ IF must_fatal(untilRes)
       THEN /\ pc' = "t_fatal"
            /\ testFailed' = TRUE
            /\ report' = Fatalf({})
       ELSE /\ pc' = "wc_returned"
            /\ UNCHANGED <<testFailed, report>>
  /\ UNCHANGED upVars
  /\ UNCHANGED <<variant, timeout, now, deadline, tickPending, nextTick,
                 evalEnd, lastErr, untilRes, evalLog, evalTimes, retAt,
                 evalStarts, tickerMade, errCount, procAborted>>
  /\ UNCHANGED syncVars
  /\ UNCHANGED <<mainVars, cmdVars, helmVars>>

\* waitForUpstreamCommits (ticker-based): the ticker is made.
waitForUpstreamCommits_entry ==
  /\ pc = "wc_entry"
  /\ NewTicker
  /\ pc' = "wc_select"
  /\ UNCHANGED upVars
  /\ UNCHANGED <<variant, timeout, now, deadline, evalEnd, lastErr, untilRes,
                 evalLog, evalTimes, retAt, evalStarts, errCount, testFailed,
                 procAborted, report>>
  /\ UNCHANGED syncVars
  /\ UNCHANGED <<mainVars, cmdVars, helmVars>>

\* waitForUpstreamCommits, case <-ticker.C: fetch or die, count ignoring
\* errors, return true on a count of at least mincount; log.Fatalf on a count
\* that is not a number.
waitForUpstreamCommits_tick ==
  /\ pc = "wc_select"
  /\ tickPending
  /\ tickPending' = FALSE
  /\ \E fetchOk \in BOOLEAN :
       IF ~(ctxAlive /\ fetchOk)
         THEN /\ strOrDie_abort
              /\ UNCHANGED wc_seen
         ELSE \E out \in CountOutputs :
                LET res == waitForUpstreamCommits_step(out, mincount) IN
                /\ wc_seen' = Append(wc_seen, Tick(now, out, res))
                /\ IF res = "fatal"
                     THEN strOrDie_abort
                     ELSE /\ pc' = IF res = "success" THEN "wc_returned"
                                   ELSE "wc_select"
                          /\ UNCHANGED procAborted
  /\ UNCHANGED <<mincount, commits>>
  /\ UNCHANGED <<variant, timeout, now, deadline, nextTick, evalEnd, lastErr,
                 untilRes, evalLog, evalTimes, retAt, evalStarts, tickerMade,
                 errCount, testFailed, report>>
  /\ UNCHANGED syncVars
  /\ UNCHANGED <<mainVars, cmdVars, helmVars>>

\* waitForUpstreamCommits, case <-ctx.Done(): h.t.Fatalf("Failed to find at
\* least %d commits").
waitForUpstreamCommits_done ==
  /\ pc = "wc_select"
  /\ now >= deadline
  /\ pc' = "t_fatal"
  /\ testFailed' = TRUE
  /\ report' = Fatalf({})
  /\ UNCHANGED upVars
  /\ UNCHANGED <<variant, timeout, now, deadline, tickPending, nextTick,
                 evalEnd, lastErr, untilRes, evalLog, evalTimes, retAt,
                 evalStarts, tickerMade, errCount, procAborted>>
  /\ UNCHANGED syncVars
  /\ UNCHANGED <<mainVars, cmdVars, helmVars>>

\* flux (automation) pushes a commit and moves the sync tag onto it.
flux_push ==
  /\ pc \notin {"t_fatal", "aborted", "wc_returned"}
  /\ commits < MaxCommits
  /\ commits' = commits + 1
  /\ UNCHANGED <<mincount, wc_seen>>
  /\ UNCHANGED <<pollVars, mainVars, cmdVars, helmVars>>

\* Before TestAutomation waits: flux has pushed nothing yet.
upStart ==
  /\ mincount = 2
  /\ commits = 0
  /\ wc_seen = <<>>

\* ------------------------------------------------------ specifications
\* Polling: one call of until, or of waitForSync and verifySyncAndSvcs.
Init ==
  /\ variant \in {"generic", "untilSync", "tickerSync"}
  /\ timeout \in 0..MaxTimeout
  /\ targetRemote \in (IF variant = "generic" THEN {FALSE} ELSE BOOLEAN)
  /\ remoteTag \in (IF variant = "generic" THEN {0} ELSE 0..1)
  /\ pollStart
  /\ pollFlags
  /\ mainStart
  /\ cmdStart
  /\ helmStart
  /\ upStart

Next ==
  \/ Start
  \/ until_call
  \/ until_tick
  \/ until_return_generic
  \/ until_return_waitForSync
  \/ until_deadline
  \/ harness_must
  \/ waitForSync_entry
  \/ waitForSync_tick
  \/ waitForSync_done
  \/ verifySyncAndSvcs_loop
  \/ servicesAPICall_tick
  \/ servicesAPICall_done
  \/ verifySyncAndSvcs_end
  \/ Advance
  \/ FluxSync
  \/ FluxCommit

Spec == Init /\ [][Next]_vars

\* The suite: TestMain, then the tests one after the other.
MainInit ==
  /\ version \in {"main", "test"}
  /\ keepWorkdir \in BOOLEAN
  /\ startMinikube \in BOOLEAN
  /\ driverNone \in (IF version = "main" THEN {FALSE} ELSE BOOLEAN)
  /\ mainStart
  /\ variant = "generic"
  /\ timeout = 0
  /\ targetRemote = FALSE
  /\ remoteTag = 0
  /\ pollStart
  /\ cmdStart
  /\ helmStart
  /\ upStart

MainNext ==
  \/ TestMain_step_ok
  \/ TestMain_step_fatal
  \/ TestMain_step_ignored
  \/ m_Run
  \/ tRunner_start
  \/ test_step_ok
  \/ test_step_die
  \/ test_step_logfatal
  \/ test_step_tfatal
  \/ test_step_terror
  \/ test_step_ignored
  \/ tRunner_finish
  \/ TestMain_exit

MainSpec == MainInit /\ [][MainNext]_vars

\* The command runner: calls of envExec through its wrappers, one at a time.
CmdInit ==
  /\ cmdStart
  /\ variant = "generic"
  /\ timeout = 0
  /\ targetRemote = FALSE
  /\ remoteTag = 0
  /\ pollStart
  /\ pollFlags
  /\ mainStart
  /\ helmStart
  /\ upStart

CmdNext ==
  \/ exec_call
  \/ ignoreErr_return
  \/ strOrDie_return
  \/ envExec_return
  \/ flux_tags

CmdSpec == CmdInit /\ [][CmdNext]_vars

\* The helm release checks of TestChartUpdateViaHelm.
HelmInit ==
  /\ variant = "helm"
  /\ timeout \in 0..HelmMaxTimeout
  /\ targetRemote = FALSE
  /\ remoteTag = 0
  /\ pollStart
  /\ pollFlags
  /\ mainStart
  /\ cmdStart
  /\ helmStart
  /\ upStart

HelmNext ==
  \/ Start
  \/ until_call
  \/ until_tick
  \/ helm_lookup
  \/ helmReleaseHasValue_values
  \/ until_deadline
  \/ helm_exitif
  \/ helm_upgrade
  \/ Advance
  \/ operator_install
  \/ tiller_deployed
  \/ operator_upgrade

HelmSpec == HelmInit /\ [][HelmNext]_vars

\* waitForUpstreamCommits, in either form.
UpstreamInit ==
  /\ variant \in {"untilCommits", "tickerCommits"}
  /\ timeout \in 0..MaxTimeout
  /\ targetRemote = FALSE
  /\ remoteTag = 0
  /\ pollStart
  /\ pollFlags
  /\ mainStart
  /\ cmdStart
  /\ helmStart
  /\ upStart

UpstreamNext ==
  \/ Start
  \/ until_call
  \/ until_tick
  \/ until_return_waitForUpstreamCommits
  \/ until_deadline
  \/ waitForUpstreamCommits_must
  \/ waitForUpstreamCommits_entry
  \/ waitForUpstreamCommits_tick
  \/ waitForUpstreamCommits_done
  \/ Advance
  \/ flux_push

UpstreamSpec == UpstreamInit /\ [][UpstreamNext]_vars

\* ------------------------------------------------- claims: the engine
Last(q) == q[Len(q)]

Polling == pc \in {"u_wait", "u_eval"}

\* C1: once an evaluation of the predicate has returned nil before the
\* deadline, until has returned nil, did so within one tick of that
\* evaluation, and no evaluation follows the successful one.
C1_SuccessReturnsNil ==
  \A i \in DOMAIN evalLog :
    (evalLog[i] = NoErr /\ evalTimes[i] < deadline)
      => /\ i = Len(evalLog)
         /\ ~Polling
         /\ untilRes = RetNil
         /\ retAt <= evalTimes[i] + TickLen

\* A failed evaluation, then a successful one before the deadline, and until
\* has returned nil.
C1_Witness ==
  /\ Len(evalLog) >= 2
  /\ evalLog[1] # NoErr
  /\ Last(evalLog) = NoErr
  /\ Last(evalTimes) < deadline
  /\ untilRes = RetNil

\* C2: as long as every evaluation has returned an error, until has not
\* returned before the deadline (an error only means retry); it is not still
\* polling more than one tick after the deadline, and what it returns is a
\* non-nil error, at a time between the deadline and one tick after it.
C2_AllErrorsTimeOut ==
  (\A i \in DOMAIN evalLog : evalLog[i] # NoErr)
    => /\ Polling => now <= deadline + TickLen
       /\ untilRes # Pending
            => /\ untilRes.kind # "nil"
               /\ retAt >= deadline
               /\ retAt <= deadline + TickLen

\* Two evaluations failed and until has returned the deadline error.
C2_Witness ==
  /\ Len(evalLog) >= 2
  /\ \A i \in DOMAIN evalLog : evalLog[i] # NoErr
  /\ untilRes.kind = "deadline"
  /\ retAt >= deadline

\* C6: the error until returns on the deadline wraps the result of the last
\* evaluation performed (none: no evaluation was made), and it is the
\* deadline-exceeded wrapper, no other kind of error.
C6_LastErrorWrapped ==
  /\ untilRes.kind \in {"pending", "nil", "deadline"}
  /\ untilRes.kind = "deadline"
       => untilRes.cause = (IF evalLog = <<>> THEN NoErr ELSE Last(evalLog))

\* until timed out after two evaluations that failed with different errors.
C6_Witness ==
  /\ untilRes.kind = "deadline"
  /\ Len(evalLog) >= 2
  /\ evalLog[Len(evalLog) - 1] # Last(evalLog)
  /\ untilRes.cause = Last(evalLog)

\* C15: when the deadline expires while an evaluation of the predicate is in
\* flight, until does not wait for it: its return is the step to take, it
\* returns a deadline-exceeded error, and it does so at the deadline.
C15_ReturnsAtDeadlineInFlight ==
  /\ (pc = "u_eval" /\ now >= deadline) => (ENABLED until_deadline /\ ~Blocked)
  /\ untilRes.kind = "deadline" => retAt = deadline

\* until has returned deadline-exceeded while the evaluation it had started
\* was due to return later.
C15_Witness ==
  /\ untilRes.kind = "deadline"
  /\ evalEnd > deadline
  /\ retAt = deadline

\* C16: at most one evaluation of until's predicate is in progress at any
\* time, an evaluation starts only when the one before it has returned, and
\* the i-th evaluation starts no earlier than the i-th tick of until's ticker
\* (the ticker in use until waitForSync has returned).
C16_OneEvaluationAtATime ==
  /\ Len(evalStarts) - Len(evalLog) \in {0, 1}
  /\ \A i \in DOMAIN evalStarts :
       /\ i > 1 => (i - 1 \in DOMAIN evalTimes /\ evalTimes[i - 1] <= evalStarts[i])
       /\ ~wsReturned => evalStarts[i] >= tickerMade + i * TickLen

\* Three evaluations have been started, the third while no other was running.
C16_Witness ==
  /\ Len(evalStarts) = 3
  /\ Len(evalLog) = 2
  /\ pc = "u_eval"

\* A tick has been taken from the ticker's channel: the loop evaluates.
TickTaken == tickPending /\ ~tickPending' /\ pc \in {"u_wait", "ws_select", "svc_select"}

\* C17: a polling loop (until, waitForSync, servicesAPICall) evaluates only
\* when a full tick interval has passed since its ticker was made, and with a
\* timeout shorter than one tick no evaluation is made and the loop ends in
\* a timeout.
C17_NoEvaluationAtTimeZero ==
  [][ /\ TickTaken => now >= tickerMade + TickLen
      /\ timeout < TickLen
           => /\ evalStarts' = <<>> /\ ~lastSeen'.any /\ got' \in {"nil", "empty"}
              /\ pc' = "g_done" => untilRes'.kind = "deadline"
              /\ ~wsReturned' ]_vars

\* A timeout shorter than a tick has ended waitForSync in a failure, with no
\* lookup made.
C17_Witness ==
  /\ timeout = TickLen - 1
  /\ pc = "t_fatal"
  /\ ~lastSeen.any
  /\ evalStarts = <<>>

C8_TimedOutIsTerminal ==
  (variant = "untilSync" /\ untilRes.kind = "deadline")
    => /\ pc \in {"ws_must", "t_fatal"}
       /\ pc = "t_fatal" => testFailed
       /\ ~wsReturned
       /\ svcCalls = 0

\* The sync tag still diverged at the last tick, until has timed out and the
\* test has been failed.
C8_Witness ==
  /\ variant = "untilSync"
  /\ untilRes.kind = "deadline"
  /\ untilRes.cause.kind = "diverged"
  /\ pc = "t_fatal"
  /\ testFailed
  /\ svcCalls = 0

\* C3: verifySyncAndSvcs does not go on polling after the deadline: when its
\* loop test is reached with the syncTimeout context expired, flux queried and
\* the images still not the expected ones, it leaves the loop to report the
\* failure and return.
C3_ReturnsAfterDeadline ==
  [][(pc = "vs_check" /\ now >= deadline /\ got # "nil" /\ diff)
       => pc' = "vs_end"]_vars


\* C13: a tick at which the fetch succeeds and the sync tag is absent records
\* no failure and reports no convergence: the predicate returns an error to
\* until (the ticker-based loop goes round), and the next tick is awaited.
C13_AbsentTagIsNotYetConverged ==
  [][ /\ (variant = "untilSync" /\ pc = "u_eval" /\ remoteTag = 0
            /\ Len(evalLog') > Len(evalLog))
         => /\ Last(evalLog') # NoErr
            /\ pc' = "u_wait"
            /\ testFailed' = testFailed /\ errCount' = errCount
            /\ ~wsReturned' /\ ~procAborted'
      /\ (variant = "tickerSync" /\ pc = "ws_select" /\ remoteTag = 0
            /\ tickPending /\ ~tickPending' /\ ~procAborted')
         => /\ pc' = "ws_select"
            /\ testFailed' = testFailed /\ errCount' = errCount
            /\ ~wsReturned' ]_vars

\* The first evaluation found the sync tag absent, a later one found it at
\* the target, and waitForSync returned.
C13_Witness ==
  /\ variant = "untilSync"
  /\ Len(evalLog) >= 2
  /\ evalLog[1].kind = "diverged" /\ evalLog[1].sync = 0
  /\ wsReturned
  /\ ~testFailed

\* waitForSync has failed the test because its deadline passed.
WaitForSyncTimedOut ==
  /\ pc = "t_fatal"
  /\ report.made
  /\ (variant = "untilSync" => untilRes.kind = "deadline")

\* C14: when waitForSync has timed out after at least one lookup of the sync
\* tag, the message of the failure names the revision the latest lookup saw.
C14_TimeoutNamesLastSeen ==
  (WaitForSyncTimedOut /\ lastSeen.any)
    => <<"sync", lastSeen.rev>> \in report.names

Executed(t) == status[t] \in {"pass", "fail"}

\* C4: a command run for a test through strOrDie (the ...OrDie wrappers,
\* execNoErr) that fails leaves the process running until every test has
\* been executed: the process has not exited with a test still to run.
C4_SiblingsStillRun ==
  (dieIn # {} /\ proc = "exited")
    => \A i \in DOMAIN Tests : Executed(Tests[i])

\* C5: once the process has exited after m.Run ran the tests, the root
\* working directory is gone if keep-workdir is false, and in place if it is
\* true.
C5_WorkdirRemovedAtExit ==
  (proc = "exited" /\ mRun /\ cur > Len(Tests))
    => workdir = (IF keepWorkdir THEN "exists" ELSE "removed")

\* C9: every resource the harnesses mutate is mutated by one test only: its
\* name is that test's own.
C9_ResourcesPerTest ==
  \A a \in mutatedBy : \A b \in mutatedBy : a[1] = b[1] => a[2] = b[2]

\* C10: once a version check, the node IP lookup, the creation of the
\* namespace, of a secret or of a configmap, or the write of the known-hosts
\* file has failed, m.Run is never entered.
C10_SetupFailFast ==
  failedSetup \cap Listed(version) # {} => ~mRun


\* The fields of global a harness relies on.
RequiredFields(v) ==
  IF v = "main" THEN {"workdir", "profile", "clusterIP"}
                ELSE {"testroot", "clusterIP", "clusterAPI", "kubectlAPI", "helmAPI"}

\* A harness exists or has existed.
HarnessSeen == harness # NoHarness \/ \E i \in DOMAIN Tests : Executed(Tests[i])

\* C11: whenever a harness exists, every field of the global setup that it
\* relies on has been set, and from the first harness on no step changes
\* any field of the global setup.
C11_FieldsSetBeforeHarness ==
  [][ /\ harness' # NoHarness
           => \A f \in RequiredFields(version) : global'[f] # Unset
      /\ HarnessSeen => global' = global ]_vars

\* The second test's harness exists, in package test.
C11_Witness ==
  /\ version = "test"
  /\ cur = 2
  /\ harness # NoHarness
  /\ harness.t = "TestAutomation"


\* ----------------------------------------- claims: the command runner
\* C12: what the caller receives when the lookup of the sync tag fails for
\* another reason than the tag being absent (the context expired, the child
\* was killed) differs from what it receives when the tag is absent.
C12_FailureNotAbsent ==
  \A a \in seenFor : \A b \in seenFor :
    (a[1] = "failed" /\ b[1] = "absent") => a[2] # b[2]

C19_IgnoreErrReturnsOutput ==
  (c_pc = "idle" /\ c_call.wrap = "ignoreErr" /\ c_res.err # NilError)
    => c_seen = c_res.out

\* C20: envExec returns the captured output as its first result; on success
\* the error is nil; on failure the error carries the argv (program name and
\* arguments), the cause and the whole captured output.
C20_EnvExecResult ==
  c_call # NoCall
    => /\ c_res.out = c_raw.out
       /\ c_raw.cause = "" => c_res.err = NilError
       /\ c_raw.cause # ""
            => /\ c_res.err # NilError
               /\ c_res.err.args = c_call.args
               /\ c_res.err.cause = c_raw.cause
               /\ c_res.err.out = c_raw.out

\* A helm command has failed after printing something.
C20_Witness ==
  /\ c_call # NoCall
  /\ c_call.args[1] = "helm"
  /\ c_raw.cause = "exit status 1"
  /\ c_raw.out > 0
  /\ c_res.err # NilError

\* ------------------------------------------ claims: the helm release checks
\* The assertions that have passed and what each had observed.
Passed(phase) == {i \in 1..Len(h_ok) : h_ok[i].phase = phase}

\* C22: assertHelmReleaseDeployed returns a revision only if the latest
\* history entry its passing poll observed had that revision, the revision was
\* at least minRevision and the status was DEPLOYED; when until gives up at the
\* deadline the test is failed fatally and no revision is returned.
C22_DeployedRevisionReturned ==
  /\ h_ret # 0
       => \E i \in Passed("deployed") :
            /\ h_ok[i].rev = h_ret
            /\ h_ok[i].rev = h_ok[i].latest
            /\ h_ok[i].rev >= h_ok[i].min
            /\ h_ok[i].status = "DEPLOYED"
  /\ (h_phase = "deployed" /\ untilRes.kind = "deadline")
       => /\ h_ret = 0
          /\ pc \in {"h_exitif", "t_fatal"}
          /\ pc = "t_fatal" => testFailed

\* A revision is returned by the second poll, the first having failed.
C22_Witness ==
  /\ h_phase = "upgrade"
  /\ h_ret > 0
  /\ Len(evalLog) >= 2
  /\ evalLog[1] # NoErr

\* C26: in TestChartUpdateViaHelm every helmReleaseHasValue that returned nil
\* had a revision of at least initialRevision+1, the status DEPLOYED and, read
\* at exactly that revision, the value waited for, before its deadline; the
\* value set out of band is observed first, and only afterwards the operator's
\* revert to null.
C26_ValueThenRevert ==
  /\ \A i \in Passed("hasValue") \cup Passed("reverted") :
       /\ h_ok[i].min = h_ret + 1
       /\ h_ok[i].rev >= h_ok[i].min
       /\ h_ok[i].status = "DEPLOYED"
       /\ h_ok[i].val = h_ok[i].want
       /\ releases[h_ok[i].rev].val = h_ok[i].want
       /\ h_ok[i].at <= h_ok[i].by
  /\ \A i \in Passed("hasValue") : h_ok[i].want = SetValue
  /\ \A j \in Passed("reverted") :
       /\ h_ok[j].want = NullValue
       /\ \E i \in Passed("hasValue") : i < j /\ h_ok[i].rev < h_ok[j].rev
  /\ h_phase \in {"reverted", "done"} => Passed("hasValue") # {}
  /\ h_phase = "done" => Passed("reverted") # {}

\* The test has run to its end: the value was seen, then the revert, the
\* revert's assertion having first looked at the release before the revert.
C26_Witness ==
  /\ h_phase = "done"
  /\ Len(h_ok) = 3
  /\ h_ok[3].rev > h_ok[2].rev
  /\ Len(evalLog) >= 2

\* C28: lastHelmRelease does not index an empty history: when helm history
\* yields no entry it records a test error and returns without a panic.
C28_NoPanicOnEmptyHistory ==
  pc # "panicked"

\* C23: the harness newharness builds holds its own cluster and helm
\* capabilities, of the kind the global setup holds and reporting through the
\* current test; building it leaves the global setup as it was, its
\* capabilities still reporting through the standard logger.
C23_HarnessCapabilitiesRetargeted ==
  [][ (version' = "test" /\ harness' # NoHarness)
        => /\ harness'.t = Tests[cur']
           /\ harness'.clusterAPI = [kind |-> "minikube", lg |-> Tests[cur']]
           /\ harness'.helmAPI = [kind |-> "helm", lg |-> Tests[cur']]
           /\ global'["clusterAPI"] = [kind |-> "minikube", lg |-> "stdLogger"]
           /\ global'["helmAPI"] = [kind |-> "helm", lg |-> "stdLogger"]
           /\ global' = global ]_vars

\* The second test has its harness.
C23_Witness ==
  /\ version = "test"
  /\ cur = 2
  /\ harness # NoHarness
  /\ harness.clusterAPI.lg = "TestAutomation"
  /\ global["clusterAPI"].lg = "stdLogger"

\* The setup step of that name has been issued: setup has gone past it, or it
\* is the step setup stopped at.
Issued(name) ==
  \E i \in DOMAIN setupProg :
    /\ setupProg[i].name = name
    /\ i < m_pc \/ (i = m_pc /\ name \in failedSetup)

\* Setup has gone past the step of that name.
Past(name) ==
  \E i \in DOMAIN setupProg : setupProg[i].name = name /\ i < m_pc

\* C24: minikube delete and minikube start are issued only when
\* -start-minikube is set; when it is set, start is issued only after delete,
\* setup goes past start only if start succeeded, and a failed delete is
\* ignored: setup goes on to start.
C24_MinikubeOnlyOnRequest ==
  /\ ~startMinikube
       => ~Issued("minikube_delete") /\ ~Issued("minikube_start")
  /\ Issued("minikube_start") => Past("minikube_delete")
  /\ Past("minikube_start") => "minikube_start" \notin failedSetup
  /\ "minikube_delete" \in failedSetup => Past("minikube_delete")

\* ------------------------------------ claims: sync convergence, continued
\* C25: every evaluation of the until-based waitForSync's predicate judges the
\* sync tag against the revision the target ref has after that evaluation's
\* fetch: it succeeds exactly when the tag is at that revision, and the error
\* of a failed evaluation quotes that revision, also when the target has moved
\* since polling started.
C25_TargetResolvedEachTick ==
  [][ (variant = "untilSync" /\ Len(evalLog') > Len(evalLog))
        => LET r == evalLog'[Len(evalLog')]
               target == IF targetRemote THEN remoteMaster ELSE localTarget
           IN  /\ (r = NoErr) <=> (remoteTag = target)
               /\ r # NoErr => r.kind = "diverged" /\ r.target = target
               /\ r = NoErr => conv'.target = target ]_vars

\* The remote branch moved on during polling: the first evaluation quoted its
\* old revision, and convergence was found at the new one.
C25_Witness ==
  /\ variant = "untilSync"
  /\ targetRemote
  /\ wsReturned
  /\ Len(evalLog) >= 2
  /\ evalLog[1].kind = "diverged"
  /\ evalLog[1].target = 1
  /\ conv.target = 2
  /\ conv.tag = 2

\* C27: in the ticker-based waitForSync, once the deadline has expired the
\* next step of the select is the test failure "Failed to sync to revision":
\* a tick ready at the same time does not run git under the expired context
\* and end the process.
C27_DeadlineIsTestFailure ==
  [][ (variant = "tickerSync" /\ pc = "ws_select" /\ now >= deadline
         /\ pc' # pc)
        => pc' = "t_fatal" /\ ~procAborted' ]_vars

\* C29: verifySyncAndSvcs leaves its loop and returns only with the map of
\* images non-nil and equal to the expected one, so the report that follows
\* the loop never finds a diff to report.
C29_ReturnsOnlyOnMatch ==
  [][ /\ pc' \in {"vs_end", "returned"} => got' = "match" /\ ~diff'
      /\ pc = "vs_end" => errCount' = errCount /\ testFailed' = testFailed ]_vars

\* verifySyncAndSvcs has returned after a second call of services, the first
\* having found other images.
C29_Witness ==
  /\ pc = "returned"
  /\ got = "match"
  /\ svcCalls >= 2

\* ---------------------------------------- claims: waitForUpstreamCommits
\* C30: waitForUpstreamCommits returns normally only from a tick that fetched
\* and then counted at least mincount commits in HEAD..flux-sync; a tick with
\* no count output and a tick with a smaller count are retried at a later
\* tick; a tick whose output is not a number fails at once, and no tick
\* follows it.
C30_UpstreamCommitsCounted ==
  /\ \A i \in DOMAIN wc_seen :
       LET e == wc_seen[i] IN
       /\ e.res = "success"
            => /\ e.out.kind = "num"
               /\ e.out.n >= mincount
               /\ e.out.n = e.upstream
               /\ i = Len(wc_seen)
       /\ e.out.kind = "empty" => e.res = "retry"
       /\ (e.out.kind = "num" /\ e.out.n < mincount) => e.res = "retry"
       /\ e.out.kind = "junk" => e.res = "fatal" /\ i = Len(wc_seen)
       /\ i < Len(wc_seen) => e.res = "retry" /\ wc_seen[i + 1].at > e.at
  /\ pc = "wc_returned"
       => Len(wc_seen) > 0 /\ wc_seen[Len(wc_seen)].res = "success"
  /\ (Len(wc_seen) > 0 /\ wc_seen[Len(wc_seen)].res = "fatal")
       => pc \in {"t_fatal", "aborted"}

\* Success at the third tick, after a tick without output and a tick with too
\* few commits.
C30_Witness ==
  /\ pc = "wc_returned"
  /\ Len(wc_seen) = 3
  /\ wc_seen[1].out.kind = "empty"
  /\ wc_seen[2].out = Count(1)
  /\ wc_seen[3].out = Count(2)

\* A tick printed something that is not a number, and that was the end.
C30_WitnessNonNumeric ==
  /\ Len(wc_seen) = 2
  /\ wc_seen[2].out.kind = "junk"
  /\ pc \in {"t_fatal", "aborted"}

=============================================================================
